---- MODULE Spec2Model ----
(***************************************************************************)
(* Model of src/main.rs: the animation catalogue, the startup systems, the *)
(* SceneInstanceReady observer and the per-frame keyboard controller,      *)
(* together with the part of the bevy_animation 0.15 runtime the           *)
(* controller drives (AnimationPlayer, ActiveAnimation, AnimationGraph,    *)
(* AnimationTransitions and the PostUpdate animation systems).             *)
(*                                                                         *)
(* Numbers.  f32 speeds are fixed-point in units of 1/PlaybackSpeedDefault *)
(* (1.0 = PlaybackSpeedDefault), truncated after each multiplication.      *)
(* Times (elapsed, seek_time, frame delta, clip duration) and GizmosConfig *)
(* vel are integer tenths.  Blend weights are in units of 1/WeightOne.     *)
(***************************************************************************)
EXTENDS Integers, Sequences, FiniteSets, TLC

\* ---------------------------------------------------------------- bounds
\* Entities under the scene's first child that carry an AnimationPlayer.
MaxPlayers == 2
\* Largest frame delta, in tenths of a second (0 = below the resolution).
MaxDelta == 1
\* Duration of every clip asset, in tenths of a second.
ClipDuration == 2
\* Length of the recorded run (entries of trace), per specification.
MaxFrames == 3
MaxFramesEnter == 20
MaxFramesPause == 6
MaxFramesSpeed == 4
MaxFramesVel == 5
MaxFramesSeek == 4
MaxFramesLoad == 3
MaxFramesUnwrap == 6

\* ------------------------------------------------------- program constants
\* AnimationParams::new: playback_speed: 1.0 (also f32 1.0 of the runtime).
PlaybackSpeedDefault == 10000
\* speed + 0.1 / speed - 0.1
SpeedStep == PlaybackSpeedDefault \div 10
\* gizmos_config.vel += 0.1
VelStep == 1
\* playing.seek_to(elapsed - 0.1)
SeekStep == 1
\* Duration::from_millis(250)
BlendMillis == 250
\* weight 1.0 of the runtime, in units of 0.2
WeightOne == BlendMillis \div 50

\* AnimationParams::new(path, name)
AnimationParamsNew(path, name) ==
    [path |-> path, name |-> name, playback_speed |-> PlaybackSpeedDefault]

\* AnimationsMetadata::new()
AnimationsMetadataNew ==
    << AnimationParamsNew("all_animations_7.glb#Animation0", "TPose"),
       AnimationParamsNew("all_animations_7.glb#Animation1", "ClimbDown"),
       AnimationParamsNew("all_animations_7.glb#Animation2", "CrouchWalk"),
       AnimationParamsNew("all_animations_7.glb#Animation3", "FallOpen"),
       AnimationParamsNew("all_animations_7.glb#Animation4", "FallDiagonal"),
       AnimationParamsNew("all_animations_7.glb#Animation5", "FallHeadDown"),
       AnimationParamsNew("all_animations_7.glb#Animation6", "RunSprint"),
       AnimationParamsNew("all_animations_7.glb#Animation7", "WallHang"),
       AnimationParamsNew("all_animations_7.glb#Animation8", "IdleStand"),
       AnimationParamsNew("all_animations_7.glb#Animation9", "DashPose"),
       AnimationParamsNew("all_animations_7.glb#Animation10", "RunFast"),
       AnimationParamsNew("all_animations_7.glb#Animation11", "RunJog"),
       AnimationParamsNew("all_animations_7.glb#Animation12", "Walk"),
       AnimationParamsNew("all_animations_7.glb#Animation13", "WalkStride"),
       AnimationParamsNew("all_animations_7.glb#Animation14", "JumpAscent"),
       AnimationParamsNew("all_animations_7.glb#Animation15", "LadderHandsWide"),
       AnimationParamsNew("all_animations_7.glb#Animation16", "LadderHandsMedium"),
       AnimationParamsNew("all_animations_7.glb#Animation17", "WallSlide") >>

\* Keys whose press edges the run may contain (ArrowRight is the key the
\* help text names; the controller polls AltRight).
KeyCode ==
    { "Backspace", "Space", "ArrowUp", "ArrowDown", "ControlLeft", "KeyA",
      "KeyZ", "ArrowLeft", "AltRight", "ArrowRight", "Enter" }

VARIABLES
    animation_meta,     \* Res<AnimationsMetadata>: the catalogue
    animations,         \* Res<Animations>: [present, handles]
    scene,              \* "none" | "spawned" | "ready"
    animation_graphs,   \* Assets<AnimationGraph>: sequence of graphs added
    matched,            \* entities holding AnimationPlayer + AnimationTransitions
    graph_handle,       \* AnimationGraphHandle of each matched entity
    player,             \* AnimationPlayer.active_animations of each matched entity
    transitions,        \* AnimationTransitions of each matched entity
    current_animation,  \* Local<usize>
    use_params,         \* Local<bool>
    gizmos_config,      \* Res<GizmosConfig>: [y, vel]
    crashed,            \* the process panicked (unwrap on None)
    trace               \* the run so far: one entry per frame / observer run

vars ==
    << animation_meta, animations, scene, animation_graphs, matched,
       graph_handle, player, transitions, current_animation, use_params,
       gizmos_config, crashed, trace >>

\* ------------------------------------------------- bevy_animation runtime
\* ActiveAnimation::default()
ActiveAnimationDefault ==
    [ weight |-> WeightOne, repeat |-> "Never", speed |-> PlaybackSpeedDefault,
      elapsed |-> 0, seek_time |-> 0, completions |-> 0, paused |-> FALSE ]

\* ActiveAnimation::is_finished()
IsFinished(a) == a.repeat = "Never" /\ a.completions >= 1

\* ActiveAnimation::replay(): rewinds; keeps speed, repeat, weight and paused.
Replay(a) == [a EXCEPT !.completions = 0, !.elapsed = 0, !.seek_time = 0]

\* SeekTo that also rewrites the played time and clamps both at the start of
\* the clip.
SeekToClampedElapsed(a, t) ==
    [a EXCEPT !.seek_time = IF t < 0 THEN 0 ELSE t,
              !.elapsed = IF t < 0 THEN 0 ELSE t]

\* ActiveAnimation::seek_to(t): moves the playhead (seek_time), unclamped;
\* the played time (elapsed) is a separate field and is left alone.
SeekTo(a, t) == [a EXCEPT !.seek_time = t]

\* ActiveAnimation::update(delta, clip_duration)
Update(a, delta, clip_duration) ==
    IF IsFinished(a) THEN a
    ELSE
        LET e == a.elapsed + delta
            s == a.seek_time + ((delta * a.speed) \div PlaybackSpeedDefault)
            over == a.speed > 0 /\ s >= clip_duration
            under == a.speed < 0 /\ s < 0
            c == IF over \/ under THEN a.completions + 1 ELSE a.completions
            s2 == IF s >= clip_duration THEN s % clip_duration ELSE s
            s3 == IF s2 < 0 THEN s2 + clip_duration ELSE s2
        IN  IF (over \/ under) /\ a.repeat = "Never"
            THEN [a EXCEPT !.elapsed = e, !.seek_time = s, !.completions = c]
            ELSE [a EXCEPT !.elapsed = e, !.seek_time = s3, !.completions = c]

\* AnimationPlayer::all_paused(): true of the empty player too.
AllPaused(anims) == \A n \in DOMAIN anims : anims[n].paused

\* AnimationPlayer::pause_all()
PauseAll(anims) == [n \in DOMAIN anims |-> [anims[n] EXCEPT !.paused = TRUE]]

\* AnimationPlayer::resume_all()
ResumeAll(anims) == [n \in DOMAIN anims |-> [anims[n] EXCEPT !.paused = FALSE]]

\* AnimationPlayer::adjust_speeds(factor): multiplies every active
\* animation's speed by factor.
AdjustSpeeds(anims, factor) ==
    [n \in DOMAIN anims |->
        [anims[n] EXCEPT !.speed = (@ * factor) \div PlaybackSpeedDefault]]

\* AnimationPlayer::start(node): entry(node).or_default(), then replay().
PlayerStart(anims, node) ==
    LET a == IF node \in DOMAIN anims THEN anims[node] ELSE ActiveAnimationDefault
    IN  [n \in DOMAIN anims \cup {node} |->
            IF n = node THEN Replay(a) ELSE anims[n]]

\* AnimationPlayer::stop(node)
PlayerStop(anims, nodes) == [n \in DOMAIN anims \ nodes |-> anims[n]]

\* AnimationGraph::from_clips(handles): a new graph holds its root blend
\* node (index 0); the clips are added after it, the i-th clip as node i.
\* Returns the graph and the node indices of the clips, in order.
FromClips(handles) ==
    [ graph |->
        [ root |-> 0,
          nodes |-> [n \in 0..Len(handles) |->
                        IF n = 0 THEN [type |-> "Blend", clip |-> ""]
                        ELSE [type |-> "Clip", clip |-> handles[n]]] ],
      indices |-> [i \in 1..Len(handles) |-> i] ]

\* (index as u32).into(): AnimationNodeIndex::new(index)
NodeIndexFrom(index) == index

\* AnimationTransitions::new(); main_animation None is -1.
AnimationTransitionsNew == [main_animation |-> -1, transitions |-> << >>]

\* TransitionsPlay that keeps a pending fade-out of new_animation: when that
\* fade-out ends, the animation just started is stopped.
TransitionsPlayKeepsFadeOut(tr, anims, new_animation, duration_ms) ==
    LET old == tr.main_animation
        push == /\ old # -1
                /\ old \in DOMAIN anims
                /\ ~anims[old].paused
        ts1 == IF push
               THEN Append(tr.transitions,
                        [ current_weight |-> anims[old].weight,
                          duration_ms |-> duration_ms,
                          animation |-> old ])
               ELSE tr.transitions
    IN  [ tr |-> [main_animation |-> new_animation, transitions |-> ts1],
          anims |-> PlayerStart(anims, new_animation) ]

\* AnimationTransitions::play(player, new_animation, transition_duration)
TransitionsPlay(tr, anims, new_animation, duration_ms) ==
    LET old == tr.main_animation
        push == /\ old # -1
                /\ old \in DOMAIN anims
                /\ ~anims[old].paused
        ts1 == IF push
               THEN Append(tr.transitions,
                        [ current_weight |-> anims[old].weight,
                          duration_ms |-> duration_ms,
                          animation |-> old ])
               ELSE tr.transitions
        ts2 == SelectSeq(ts1, LAMBDA t : t.animation # new_animation)
    IN  [ tr |-> [main_animation |-> new_animation, transitions |-> ts2],
          anims |-> PlayerStart(anims, new_animation) ]

\* weight_decline_per_sec * delta, for a transition of duration_ms
WeightDecline(duration_ms, delta) ==
    IF duration_ms = 0 THEN WeightOne
    ELSE (delta * 100 * WeightOne) \div duration_ms

RECURSIVE AdvanceTransitionsFrom(_, _, _, _, _)
\* advance_transitions, the loop over transitions.iter_mut().rev()
AdvanceTransitionsFrom(ts, anims, i, remaining, delta) ==
    IF i = 0 THEN [ts |-> ts, anims |-> anims, remaining |-> remaining]
    ELSE
        LET t == ts[i]
            d == t.current_weight - WeightDecline(t.duration_ms, delta)
            cw == IF d < 0 THEN 0 ELSE d
            ts1 == [ts EXCEPT ![i].current_weight = cw]
            has == t.animation \in DOMAIN anims
            w == (cw * remaining) \div WeightOne
            anims1 == IF has THEN [anims EXCEPT ![t.animation].weight = w]
                      ELSE anims
            rem1 == IF has THEN remaining - w ELSE remaining
        IN  AdvanceTransitionsFrom(ts1, anims1, i - 1, rem1, delta)

\* advance_transitions, for one entity
AdvanceTransitions(tr, anims, delta) ==
    LET r == AdvanceTransitionsFrom(tr.transitions, anims,
                                    Len(tr.transitions), WeightOne, delta)
        m == tr.main_animation
    IN  [ tr |-> [tr EXCEPT !.transitions = r.ts],
          anims |-> IF m # -1 /\ m \in DOMAIN r.anims
                    THEN [r.anims EXCEPT ![m].weight = r.remaining]
                    ELSE r.anims ]

\* advance_animations, for one entity: only unpaused clip nodes are ticked.
AdvanceAnimations(anims, graph, delta) ==
    [n \in DOMAIN anims |->
        IF /\ ~anims[n].paused
           /\ n \in DOMAIN graph.nodes
           /\ graph.nodes[n].type = "Clip"
        THEN Update(anims[n], delta, ClipDuration)
        ELSE anims[n]]

\* expire_completed_transitions, for one entity
ExpireCompletedTransitions(tr, anims) ==
    LET expired == { tr.transitions[i].animation : i \in
                        { j \in 1..Len(tr.transitions) :
                            tr.transitions[j].current_weight <= 0 } }
    IN  [ tr |-> [tr EXCEPT !.transitions =
                    SelectSeq(@, LAMBDA t : t.current_weight > 0)],
          anims |-> PlayerStop(anims, expired) ]

\* The Animation system set of PostUpdate for one entity with a graph:
\* advance_transitions, advance_animations, expire_completed_transitions.
AnimationSystems(tr, anims, graph, delta) ==
    LET r1 == AdvanceTransitions(tr, anims, delta)
        a2 == AdvanceAnimations(r1.anims, graph, delta)
    IN  ExpireCompletedTransitions(r1.tr, a2)

\* ------------------------------------------------------------ the program
\* An observable step of a frame: a call into the runtime or a console line.
Ev(op, p, a, b, s) == [op |-> op, p |-> p, a |-> a, b |-> b, s |-> s]

\* NextAnimation with the modulus off by one: the index can reach len.
NextAnimationWideModulus(current, len) == (current + 1) % (len + 1)

\* NextAnimation that stops at the last entry instead of wrapping.
NextAnimationSaturating(current, len) ==
    IF current + 1 < len THEN current + 1 ELSE current

\* (*current_animation + 1) % animations.0.len()
NextAnimation(current, len) == (current + 1) % len

\* The controller's loop body works on
\*   st = [cur, use, vel, pl, tr, out, crashed]
\* (Local<usize>, Local<bool>, GizmosConfig.vel, every entity's player and
\* transitions, the frame's calls and console lines, and whether it
\* panicked).  p is the entity of this iteration, keys the press edges of the
\* frame, first the node playing_animations().next() yields for p (-1: none).

\* if just_pressed(Space) { all_paused ? resume_all : pause_all }
StepSpace(st, p, keys, first) ==
    IF st.crashed \/ "Space" \notin keys THEN st
    ELSE IF AllPaused(st.pl[p])
         THEN [st EXCEPT !.pl[p] = ResumeAll(@),
                         !.out = Append(@, Ev("resume_all", p, 0, 0, ""))]
         ELSE [st EXCEPT !.pl[p] = PauseAll(@),
                         !.out = Append(@, Ev("pause_all", p, 0, 0, ""))]

\* if just_pressed(key) { vel += / -= 0.1; println!(speed of next().unwrap(), vel) }
StepVel(st, p, keys, first, key, step) ==
    IF st.crashed \/ key \notin keys THEN st
    ELSE IF first = -1
         THEN [st EXCEPT !.vel = @ + step, !.crashed = TRUE]
         ELSE [st EXCEPT !.vel = @ + step,
                         !.out = Append(@, Ev("println_speed", p,
                                    st.pl[p][first].speed, st.vel + step, ""))]

\* if just_pressed(ControlLeft) { *use_params = !*use_params }
StepToggleParams(st, p, keys, first) ==
    IF st.crashed \/ "ControlLeft" \notin keys THEN st
    ELSE [st EXCEPT !.use = ~@]

\* if just_pressed(key) { adjust_speeds(speed of next().unwrap() +/- 0.1); println! }
StepNudge(st, p, keys, first, key, step) ==
    IF st.crashed \/ key \notin keys THEN st
    ELSE IF first = -1 THEN [st EXCEPT !.crashed = TRUE]
    ELSE
        LET factor == st.pl[p][first].speed + step
            anims == AdjustSpeeds(st.pl[p], factor)
        IN  [st EXCEPT !.pl[p] = anims,
                       !.out = @ \o << Ev("adjust_speeds", p, factor, 0, ""),
                                       Ev("println_speed", p,
                                          anims[first].speed, st.vel, "") >>]

\* if *use_params { adjust_speeds(animation_meta.0[*current_animation]
\*   .playback_speed) } else { KeyA: +0.1; KeyZ: -0.1 }
StepSpeed(st, p, keys, first, meta) ==
    IF st.crashed THEN st
    ELSE IF st.use
    THEN IF st.cur >= Len(meta) THEN [st EXCEPT !.crashed = TRUE]
         ELSE LET speed == meta[st.cur + 1].playback_speed
              IN  [st EXCEPT !.pl[p] = AdjustSpeeds(@, speed),
                             !.out = Append(@, Ev("adjust_speeds", p, speed, 0, ""))]
    ELSE StepNudge(StepNudge(st, p, keys, first, "KeyA", SpeedStep),
                   p, keys, first, "KeyZ", 0 - SpeedStep)

\* if just_pressed(ControlLeft) { println!("TOGGLED PARAMS ..", next().unwrap()) }
StepToggledPrint(st, p, keys, first) ==
    IF st.crashed \/ "ControlLeft" \notin keys THEN st
    ELSE IF first = -1 THEN [st EXCEPT !.crashed = TRUE]
    ELSE [st EXCEPT !.out = Append(@, Ev("println_toggled", p,
                                st.pl[p][first].speed, st.vel,
                                IF st.use THEN "true" ELSE "false"))]

\* if just_pressed(key) { for playing: seek_to(elapsed +/- 0.1) }
StepSeek(st, p, keys, first, key, step) ==
    IF st.crashed \/ key \notin keys THEN st
    ELSE [st EXCEPT
            !.pl[p] = [n \in DOMAIN @ |-> SeekTo(@[n], @[n].elapsed + step)],
            !.out = Append(@, Ev("seek_all", p, step, 0, ""))]

\* if just_pressed(Enter) { advance the index; transitions.play(player,
\*   index as node, 250 ms).repeat(); println!(name); println!(params) }
StepEnter(st, p, keys, first, meta, handles) ==
    IF st.crashed \/ "Enter" \notin keys THEN st
    ELSE IF Len(handles) = 0 THEN [st EXCEPT !.crashed = TRUE]
    ELSE
        LET cur == NextAnimation(st.cur, Len(handles))
            node == NodeIndexFrom(cur)
            r == TransitionsPlay(st.tr[p], st.pl[p], node, BlendMillis)
            anims == [r.anims EXCEPT ![node].repeat = "Forever"]
            st1 == [st EXCEPT !.cur = cur, !.tr[p] = r.tr, !.pl[p] = anims,
                        !.out = Append(@, Ev("play", p, node, BlendMillis, "repeat"))]
        IN  IF cur >= Len(meta) THEN [st1 EXCEPT !.crashed = TRUE]
            ELSE [st1 EXCEPT !.out = @ \o
                    << Ev("println_playing", p, 0, 0, meta[cur + 1].name),
                       Ev("println_params", p, meta[cur + 1].playback_speed, 0,
                          meta[cur + 1].path) >>]

\* The body of "for (mut player, mut transitions) in &mut animation_players"
ControlPlayer(st, p, keys, first, meta, handles) ==
    LET s1 == StepSpace(st, p, keys, first)
        s2 == StepVel(s1, p, keys, first, "ArrowUp", VelStep)
        s3 == StepVel(s2, p, keys, first, "ArrowDown", 0 - VelStep)
        s4 == StepToggleParams(s3, p, keys, first)
        s5 == StepSpeed(s4, p, keys, first, meta)
        s6 == StepToggledPrint(s5, p, keys, first)
        s7 == StepSeek(s6, p, keys, first, "ArrowLeft", 0 - SeekStep)
        s8 == StepSeek(s7, p, keys, first, "AltRight", SeekStep)
    IN  StepEnter(s8, p, keys, first, meta, handles)

RECURSIVE ControlPlayersSharedOutside(_, _, _, _, _, _)
\* ControlPlayers with the updates of the shared index, toggle and velocity
\* made once per frame after the loop, whether or not a player was matched.
ControlPlayersSharedOutside(st, ps, keys, first, meta, handles) ==
    IF ps = {}
    THEN [st EXCEPT
            !.cur = IF "Enter" \in keys /\ Len(handles) > 0
                    THEN NextAnimation(@, Len(handles)) ELSE @,
            !.use = IF "ControlLeft" \in keys THEN ~@ ELSE @,
            !.vel = IF "ArrowUp" \in keys THEN @ + VelStep
                    ELSE IF "ArrowDown" \in keys THEN @ - VelStep ELSE @]
    ELSE LET p == CHOOSE q \in ps : \A r \in ps : q <= r
             s1 == ControlPlayer(st, p, keys, first[p], meta, handles)
         IN  ControlPlayersSharedOutside(
                 [s1 EXCEPT !.cur = st.cur, !.use = st.use, !.vel = st.vel],
                 ps \ {p}, keys, first, meta, handles)

RECURSIVE ControlPlayers(_, _, _, _, _, _)
\* The loop over the query, in entity order (ps: the entities still to visit).
ControlPlayers(st, ps, keys, first, meta, handles) ==
    IF ps = {} THEN st
    ELSE LET p == CHOOSE q \in ps : \A r \in ps : q <= r
         IN  ControlPlayers(ControlPlayer(st, p, keys, first[p], meta, handles),
                            ps \ {p}, keys, first, meta, handles)

\* What playing_animations().next() may yield for each matched entity: any
\* active node (the map's iteration order is not specified), -1 if none.
FirstChoices(ps, pl) ==
    { f \in [ps -> -1..Len(animation_meta)] :
        \A p \in ps : IF DOMAIN pl[p] = {} THEN f[p] = -1
                      ELSE f[p] \in DOMAIN pl[p] }

\* The state a frame's loop starts from.
LoopState ==
    [ cur |-> current_animation, use |-> use_params, vel |-> gizmos_config.vel,
      pl |-> player, tr |-> transitions, out |-> << >>, crashed |-> FALSE ]

\* The Animation systems of PostUpdate over every matched entity.
PostUpdate(ps, pl, tr, graphs, handle, delta) ==
    [p \in ps |-> AnimationSystems(tr[p], pl[p], graphs[handle[p]], delta)]

\* One entry of the recorded run.  before / handled: the players when the
\* system started and when it returned (the PostUpdate systems run after).
Entry(kind, keys, delta, ps, before, st, y) ==
    [ kind |-> kind, keys |-> keys, delta |-> delta, matched |-> ps,
      before |-> before, handled |-> st.pl, cur |-> st.cur, use |-> st.use,
      vel |-> st.vel, y |-> y, out |-> st.out, crashed |-> st.crashed ]

\* main(): the resources inserted before the schedules run.
Init ==
    /\ animation_meta = AnimationsMetadataNew
    /\ animations = [present |-> FALSE, handles |-> << >>]
    /\ scene = "none"
    /\ animation_graphs = << >>
    /\ matched = {}
    /\ graph_handle = << >>
    /\ player = << >>
    /\ transitions = << >>
    /\ current_animation = 0
    /\ use_params = FALSE
    /\ gizmos_config = [y |-> FALSE, vel |-> 0]
    /\ crashed = FALSE
    /\ trace = << >>

\* load_model_and_animations: one handle per catalogue entry, in order
\* (a handle is named by the path it loads).
LoadHandles(meta) == [i \in 1..Len(meta) |-> meta[i].path]

\* The Startup schedule: setup and load_model_and_animations.
Startup ==
    /\ scene = "none"
    /\ animations' = [present |-> TRUE, handles |-> LoadHandles(animation_meta)]
    /\ scene' = "spawned"
    /\ UNCHANGED << animation_meta, animation_graphs, matched, graph_handle,
                    player, transitions, current_animation, use_params,
                    gizmos_config, crashed, trace >>

\* A scene root that reports its instance ready again after the first time.
SceneReadyRetriggers == scene \in {"spawned", "ready"}

\* The spawned scene root, observed by setup_scene_once_loaded, has not yet
\* reported its instance ready: the trigger is sent once per spawned instance.
SceneAwaitingReady == scene = "spawned"

\* setup_scene_once_loaded, for the n children that carry an AnimationPlayer,
\* then the frame's PostUpdate with frame time delta.
SceneInstanceReady(n, delta, maxlen) ==
    /\ SceneAwaitingReady
    /\ ~crashed
    /\ Len(trace) < maxlen
    /\ LET g == FromClips(animations.handles)
           graphs == Append(animation_graphs, g.graph)
           handle == Len(graphs)
           ps == 1..n
           r == TransitionsPlay(AnimationTransitionsNew, << >>, g.indices[1], 0)
           gh == [p \in ps |-> handle]
           pl == [p \in ps |-> r.anims]
           tr == [p \in ps |-> r.tr]
           post == PostUpdate(ps, pl, tr, graphs, gh, delta)
           st == [LoopState EXCEPT !.pl = pl, !.tr = tr,
                    !.out = [p \in ps |-> Ev("play", p, g.indices[1], 0, "")]]
       IN  /\ animation_graphs' = graphs
           /\ matched' = ps
           /\ graph_handle' = gh
           /\ player' = [p \in ps |-> post[p].anims]
           /\ transitions' = [p \in ps |-> post[p].tr]
           /\ trace' = Append(trace, Entry("ready", {}, delta, ps,
                                           [p \in ps |-> << >>], st,
                                           gizmos_config.y))
    /\ scene' = "ready"
    /\ UNCHANGED << animation_meta, animations, current_animation, use_params,
                    gizmos_config, crashed >>

\* One frame: keyboard_animation_control (Update, run_if the Animations
\* resource exists) with the press edges keys, then PostUpdate with delta.
Frame(keys, delta, maxlen) ==
    /\ animations.present
    /\ ~crashed
    /\ Len(trace) < maxlen
    /\ \E first \in FirstChoices(matched, player) :
        LET y == IF "Backspace" \in keys THEN ~gizmos_config.y
                 ELSE gizmos_config.y
            st == ControlPlayers(LoopState, matched, keys, first,
                                 animation_meta, animations.handles)
            post == PostUpdate(matched, st.pl, st.tr, animation_graphs,
                               graph_handle, delta)
        IN  /\ current_animation' = st.cur
            /\ use_params' = st.use
            /\ gizmos_config' = [y |-> y, vel |-> st.vel]
            /\ crashed' = st.crashed
            /\ player' = IF st.crashed THEN st.pl
                         ELSE [p \in matched |-> post[p].anims]
            /\ transitions' = IF st.crashed THEN st.tr
                              ELSE [p \in matched |-> post[p].tr]
            /\ trace' = Append(trace, Entry("frame", keys, delta, matched,
                                            player, st, y))
    /\ UNCHANGED << animation_meta, animations, scene, animation_graphs,
                    matched, graph_handle >>

\* The frame times of a run: none (below the resolution) or
\* the largest.
Deltas == {0, MaxDelta}

\* Any run: every key, at most one press edge per frame.
Next ==
    \/ Startup
    \/ \E n \in 0..MaxPlayers, d \in Deltas : SceneInstanceReady(n, d, MaxFrames)
    \/ \E k \in KeyCode, d \in Deltas : Frame({k}, d, MaxFrames)

Spec == Init /\ [][Next]_vars

\* Runs of Enter presses: load completion at any point, then or before it
\* one Enter press edge per frame, every frame lasting MaxDelta.
NextEnter ==
    \/ Startup
    \/ \E n \in 0..MaxPlayers : SceneInstanceReady(n, MaxDelta, MaxFramesEnter)
    \/ Frame({"Enter"}, MaxDelta, MaxFramesEnter)

SpecEnter == Init /\ [][NextEnter]_vars

\* Runs of Space and Enter presses, one key per frame.
NextPause ==
    \/ Startup
    \/ \E n \in 0..MaxPlayers, d \in Deltas :
          SceneInstanceReady(n, d, MaxFramesPause)
    \/ \E k \in {"Space", "Enter"}, d \in Deltas : Frame({k}, d, MaxFramesPause)

SpecPause == Init /\ [][NextPause]_vars

\* Runs of the speed keys: any of ControlLeft, KeyA, KeyZ in a frame.
NextSpeed ==
    \/ Startup
    \/ \E n \in 0..MaxPlayers : SceneInstanceReady(n, MaxDelta, MaxFramesSpeed)
    \/ \E ks \in SUBSET {"ControlLeft", "KeyA", "KeyZ"} :
          Frame(ks, MaxDelta, MaxFramesSpeed)

SpecSpeed == Init /\ [][NextSpeed]_vars

\* Runs of ArrowUp and ArrowDown presses, one key per frame.
NextVel ==
    \/ Startup
    \/ \E n \in 0..MaxPlayers : SceneInstanceReady(n, MaxDelta, MaxFramesVel)
    \/ \E k \in {"ArrowUp", "ArrowDown"} : Frame({k}, MaxDelta, MaxFramesVel)

SpecVel == Init /\ [][NextVel]_vars

\* Runs of the seek keys and Space, one key per frame.
NextSeek ==
    \/ Startup
    \/ \E n \in 0..MaxPlayers, d \in Deltas :
          SceneInstanceReady(n, d, MaxFramesSeek)
    \/ \E k \in {"ArrowLeft", "AltRight", "ArrowRight", "Space"}, d \in Deltas :
          Frame({k}, d, MaxFramesSeek)

SpecSeek == Init /\ [][NextSeek]_vars

\* Runs around load completion: every key, one press edge per frame, every
\* frame lasting MaxDelta.
NextLoad ==
    \/ Startup
    \/ \E n \in 0..MaxPlayers : SceneInstanceReady(n, MaxDelta, MaxFramesLoad)
    \/ \E k \in KeyCode : Frame({k}, MaxDelta, MaxFramesLoad)

SpecLoad == Init /\ [][NextLoad]_vars

\* Runs of transitions and of reads of the first playing clip: Enter, Space,
\* ArrowUp or ControlLeft, one press edge per frame, every frame lasting
\* MaxDelta.
NextUnwrap ==
    \/ Startup
    \/ \E n \in 0..MaxPlayers : SceneInstanceReady(n, MaxDelta, MaxFramesUnwrap)
    \/ \E k \in {"Enter", "Space", "ArrowUp", "ControlLeft"} :
          Frame({k}, MaxDelta, MaxFramesUnwrap)

SpecUnwrap == Init /\ [][NextUnwrap]_vars

\* ------------------------------------------------------ reading the trace
\* The controller's locals and resources when entry i started.
CurBefore(i) == IF i = 1 THEN 0 ELSE trace[i - 1].cur
UseBefore(i) == IF i = 1 THEN FALSE ELSE trace[i - 1].use
VelBefore(i) == IF i = 1 THEN 0 ELSE trace[i - 1].vel

\* The frames of the run in which key had a press edge.
PressFrames(key) ==
    { i \in 1..Len(trace) : trace[i].kind = "frame" /\ key \in trace[i].keys }

\* The observer has run before entry i.
LoadedBefore(i) == \E k \in 1..(i - 1) : trace[k].kind = "ready"

\* The events op of entry i, in order.
EventsOf(i, op) == SelectSeq(trace[i].out, LAMBDA e : e.op = op)

\* The catalogue index of the clip the graph plays at node (-1: no clip).
ClipIndexOfNode(graph, node) ==
    IF node \in DOMAIN graph.nodes /\ graph.nodes[node].type = "Clip"
       /\ \E i \in 1..Len(animations.handles) :
             animations.handles[i] = graph.nodes[node].clip
    THEN (CHOOSE i \in 1..Len(animations.handles) :
             animations.handles[i] = graph.nodes[node].clip) - 1
    ELSE -1

\* ----------------------------------------------------------------- claims
\* C1: in every reachable state the current clip index is a valid index
\* (0 <= index < length) into the AnimationsMetadata list and, once the
\* Animations resource exists, into the handle list; the two lists have the
\* same length and keep the contents they were given at startup.
C1_IndexValid ==
    /\ animation_meta = AnimationsMetadataNew
    /\ current_animation >= 0
    /\ current_animation < Len(animation_meta)
    /\ animations.present =>
        /\ animations.handles = LoadHandles(AnimationsMetadataNew)
        /\ Len(animations.handles) = Len(animation_meta)
        /\ current_animation < Len(animations.handles)
    /\ \A i \in 1..Len(trace) :
        trace[i].cur >= 0 /\ trace[i].cur < Len(animation_meta)

\* C1 witness: after load completion an Enter press has wrapped the index
\* from the last catalogue entry back to an earlier one.
C1_Witness ==
    \E i \in PressFrames("Enter") :
        /\ LoadedBefore(i)
        /\ CurBefore(i) = Len(animation_meta) - 1
        /\ trace[i].cur < CurBefore(i)

\* C2 (as claimed): a frame with one Enter press edge and at least one
\* matched player advances the index by exactly one modulo the catalogue
\* length, plays for every matched player the clip at the new index with a
\* 250 ms blend and repeat, and logs the name and descriptor of the
\* catalogue entry at the new index.
C2_EnterAdvancesPlaysLogs ==
    \A i \in PressFrames("Enter") :
        (trace[i].keys = {"Enter"} /\ trace[i].matched # {}) =>
            LET new == (CurBefore(i) + 1) % Len(animation_meta)
                plays == EventsOf(i, "play")
                names == EventsOf(i, "println_playing")
                descs == EventsOf(i, "println_params")
            IN  /\ trace[i].cur = new
                /\ \A p \in trace[i].matched :
                      \E k \in 1..Len(plays) : plays[k].p = p
                /\ \A k \in 1..Len(plays) :
                      /\ ClipIndexOfNode(
                            animation_graphs[graph_handle[plays[k].p]],
                            plays[k].a) = new
                      /\ plays[k].b = BlendMillis
                      /\ plays[k].s = "repeat"
                /\ \A k \in 1..Len(names) :
                      names[k].s = animation_meta[new + 1].name
                /\ \A k \in 1..Len(descs) :
                      descs[k].s = animation_meta[new + 1].path
                /\ Len(names) >= 1 /\ Len(descs) >= 1

\* The Enter press frames i..j are exactly n of them.
EnterWindow(i, j, n) ==
    /\ i \in PressFrames("Enter")
    /\ j \in PressFrames("Enter")
    /\ i <= j
    /\ Cardinality({k \in PressFrames("Enter") : i <= k /\ k <= j}) = n

\* C3 (as claimed): N Enter press edges (N = catalogue length), issued at
\* any point of the run including before and across load completion, return
\* the index to the value it had before the first of them.
C3_CycleAnywhere ==
    \A i, j \in 1..Len(trace) :
        EnterWindow(i, j, Len(animation_meta)) => trace[j].cur = CurBefore(i)

\* C3 (amended): N Enter press edges that are all issued before load
\* completion, or all after it, return the index to the value it had before
\* the first of them.
C3_CycleOneSideOfLoad ==
    \A i, j \in 1..Len(trace) :
        ( /\ EnterWindow(i, j, Len(animation_meta))
          /\ \A k \in i..j : trace[k].kind # "ready" )
        => trace[j].cur = CurBefore(i)

\* C3 witness: N Enter presses after load completion, with a player
\* matched, have moved the index away and back.
C3_Witness ==
    \E i, j \in 1..Len(trace) :
        /\ EnterWindow(i, j, Len(animation_meta))
        /\ LoadedBefore(i)
        /\ trace[i].matched # {}
        /\ trace[i].cur # CurBefore(i)
        /\ trace[j].cur = CurBefore(i)

\* C4 (as claimed): catalogue of 18, one player, load completion first and
\* the index at 0: after 18 Enter frames the index is 0 again, each frame
\* made one transition call and logged one clip name, the names are the
\* catalogue's entries 1, 2, ..., 17, 0 in that order, and each frame's
\* transition call targeted the clip its log line names.
C4_EighteenPresses ==
    ( /\ Len(animation_meta) = 18
      /\ Len(trace) >= 19
      /\ trace[1].kind = "ready"
      /\ Cardinality(trace[1].matched) = 1
      /\ \A k \in 2..19 : trace[k].keys = {"Enter"} )
    => /\ trace[19].cur = 0
       /\ \A k \in 1..18 :
            LET plays == EventsOf(k + 1, "play")
                names == EventsOf(k + 1, "println_playing")
            IN  /\ Len(plays) = 1
                /\ Len(names) = 1
                /\ names[1].s = animation_meta[(k % 18) + 1].name
                /\ ClipIndexOfNode(animation_graphs[graph_handle[plays[1].p]],
                                   plays[1].a) = k % 18

\* The calls the runtime received for player p in entry i, without the
\* player's name.
CallsTo(i, p) ==
    LET calls == SelectSeq(trace[i].out, LAMBDA e :
                    e.p = p /\ e.op \in { "pause_all", "resume_all",
                                          "adjust_speeds", "seek_all", "play" })
    IN  [k \in 1..Len(calls) |->
            [op |-> calls[k].op, a |-> calls[k].a, b |-> calls[k].b,
             s |-> calls[k].s]]

\* C5 (as claimed): in a frame with two or more matched players every player
\* receives the same commands with the same arguments, and the controller
\* state shared by the players (clip index, velocity, mode toggle) changes
\* once per press edge, not once per player.
C5_SameCommandsSharedOnce ==
    \A i \in 1..Len(trace) :
        (trace[i].kind = "frame" /\ Cardinality(trace[i].matched) >= 2) =>
            /\ \A p, q \in trace[i].matched : CallsTo(i, p) = CallsTo(i, q)
            /\ trace[i].cur =
                 IF "Enter" \in trace[i].keys
                 THEN (CurBefore(i) + 1) % Len(animation_meta)
                 ELSE CurBefore(i)
            /\ trace[i].use =
                 IF "ControlLeft" \in trace[i].keys THEN ~UseBefore(i)
                 ELSE UseBefore(i)
            /\ trace[i].vel = VelBefore(i)
                 + (IF "ArrowUp" \in trace[i].keys THEN VelStep ELSE 0)
                 - (IF "ArrowDown" \in trace[i].keys THEN VelStep ELSE 0)

\* C6 (as claimed), for a single matched player: two Space press edges in
\* two consecutive frames return every playing clip of the player to the
\* paused / running state it had before the first press.
C6_DoubleSpaceRestores ==
    \A i \in 1..(Len(trace) - 1) :
        ( /\ trace[i].kind = "frame" /\ trace[i].keys = {"Space"}
          /\ Cardinality(trace[i].matched) = 1
          /\ trace[i + 1].kind = "frame" /\ trace[i + 1].keys = {"Space"} )
        => \A p \in trace[i].matched :
             \A n \in DOMAIN trace[i].before[p] \cap DOMAIN trace[i + 1].handled[p] :
                trace[i + 1].handled[p][n].paused = trace[i].before[p][n].paused

\* C7 (as claimed): whenever the 'use configured speed' mode is active at
\* the end of a frame of the controller, every playing clip of every matched
\* player has the playback_speed of the catalogue entry at the current
\* index, and KeyA / KeyZ press edges of that frame did not change a speed.
C7_ModeForcesConfiguredSpeed ==
    \A i \in 1..Len(trace) :
        (trace[i].kind = "frame" /\ trace[i].use) =>
            \A p \in trace[i].matched :
                /\ \A n \in DOMAIN trace[i].handled[p] :
                      trace[i].handled[p][n].speed
                        = animation_meta[trace[i].cur + 1].playback_speed
                /\ (trace[i].keys \cap {"KeyA", "KeyZ"} # {}) =>
                      \A n \in DOMAIN trace[i].before[p] :
                         trace[i].handled[p][n].speed = trace[i].before[p][n].speed

\* The mode was turned on by a ControlLeft press and later turned off by
\* another, both before entry i, and has stayed off up to and in entry i.
OnThenOffBefore(i) ==
    \E a, b \in PressFrames("ControlLeft") :
        /\ a < b /\ b < i
        /\ ~UseBefore(a) /\ trace[a].use
        /\ UseBefore(b) /\ ~trace[b].use
        /\ \A k \in b..i : ~trace[k].use

\* C8 (as claimed): once the mode has been turned on and off again, a KeyA
\* or KeyZ press edge changes the playback speed of the playing clips, and a
\* frame without them leaves the speeds alone (nothing resets them to the
\* configured value) while the mode stays off.
C8_NudgesEffectiveAfterOnOff ==
    \A i \in 1..Len(trace) :
        (trace[i].kind = "frame" /\ OnThenOffBefore(i)) =>
            \A p \in trace[i].matched : \A n \in DOMAIN trace[i].before[p] :
                /\ (trace[i].keys = {"KeyA"} \/ trace[i].keys = {"KeyZ"}) =>
                      trace[i].handled[p][n].speed # trace[i].before[p][n].speed
                /\ (trace[i].keys \cap {"KeyA", "KeyZ"} = {}) =>
                      trace[i].handled[p][n].speed = trace[i].before[p][n].speed

\* Entries i .. i + 2n - 1 are n ArrowUp frames followed by n ArrowDown frames.
UpsThenDowns(i, n) ==
    /\ i >= 1 /\ i + 2 * n - 1 <= Len(trace)
    /\ \A k \in i..(i + n - 1) :
          trace[k].kind = "frame" /\ trace[k].keys = {"ArrowUp"}
    /\ \A k \in (i + n)..(i + 2 * n - 1) :
          trace[k].kind = "frame" /\ trace[k].keys = {"ArrowDown"}

\* C9 (as claimed), for presses after load completion with a player
\* matched: each ArrowUp press raises GizmosConfig.vel by exactly one step
\* of 0.1 and each ArrowDown press lowers it by one step, and N ArrowUp
\* presses followed by N ArrowDown presses return vel to its starting value.
C9_VelSymmetric ==
    /\ \A i \in 1..Len(trace) :
        (trace[i].kind = "frame" /\ trace[i].matched # {}) =>
            /\ trace[i].keys = {"ArrowUp"} => trace[i].vel = VelBefore(i) + VelStep
            /\ trace[i].keys = {"ArrowDown"} => trace[i].vel = VelBefore(i) - VelStep
    /\ \A i \in 1..Len(trace), n \in 0..Len(trace) :
        (UpsThenDowns(i, n) /\ n >= 1 /\ trace[i].matched # {}) =>
            trace[i + 2 * n - 1].vel = VelBefore(i)

\* Entry i is an ArrowLeft frame, entry i + 1 an AltRight frame, and clip n
\* of player p, playing before the first, did not advance in between (the
\* frame took no time, or the clip was paused).
SeekLeftThenRight(i, p, n) ==
    /\ i >= 1 /\ i + 1 <= Len(trace)
    /\ trace[i].kind = "frame" /\ trace[i].keys = {"ArrowLeft"}
    /\ trace[i + 1].kind = "frame" /\ trace[i + 1].keys = {"AltRight"}
    /\ p \in trace[i].matched
    /\ n \in DOMAIN trace[i].before[p]
    /\ (trace[i].delta = 0 \/ trace[i].handled[p][n].paused)

C11_NudgeAddsStep ==
    \A i \in 1..Len(trace) :
        (trace[i].kind = "frame" /\ ~UseBefore(i) /\ ~trace[i].use) =>
            \A p \in trace[i].matched : \A n \in DOMAIN trace[i].before[p] :
                /\ trace[i].keys = {"KeyA"} =>
                      trace[i].handled[p][n].speed
                        = trace[i].before[p][n].speed + SpeedStep
                /\ trace[i].keys = {"KeyZ"} =>
                      trace[i].handled[p][n].speed
                        = trace[i].before[p][n].speed - SpeedStep

\* C12 (as claimed): after a frame with an ArrowUp press edge the playing
\* clips of a matched player run faster than before it, and after a frame
\* with an ArrowDown press edge slower.
C12_ArrowsChangePlaybackSpeed ==
    \A i \in 1..Len(trace) :
        trace[i].kind = "frame" =>
            \A p \in trace[i].matched : \A n \in DOMAIN trace[i].before[p] :
                /\ trace[i].keys = {"ArrowUp"} =>
                      trace[i].handled[p][n].speed > trace[i].before[p][n].speed
                /\ trace[i].keys = {"ArrowDown"} =>
                      trace[i].handled[p][n].speed < trace[i].before[p][n].speed

\* The controller has moved clip n of player p in entry i by step: its
\* played time, or its playhead measured from the played time or from the
\* previous playhead.
SoughtBy(i, p, n, step) ==
    /\ n \in DOMAIN trace[i].handled[p]
    /\ \/ trace[i].handled[p][n].elapsed = trace[i].before[p][n].elapsed + step
       \/ trace[i].handled[p][n].seek_time = trace[i].before[p][n].elapsed + step
       \/ trace[i].handled[p][n].seek_time = trace[i].before[p][n].seek_time + step

\* C13 (as claimed): a frame with an ArrowLeft press edge seeks every
\* playing clip of each matched player 0.1 s backward, and a frame with an
\* ArrowRight press edge seeks it 0.1 s forward.
C13_ArrowLeftRightSeek ==
    \A i \in 1..Len(trace) :
        trace[i].kind = "frame" =>
            \A p \in trace[i].matched : \A n \in DOMAIN trace[i].before[p] :
                /\ trace[i].keys = {"ArrowLeft"} => SoughtBy(i, p, n, 0 - SeekStep)
                /\ trace[i].keys = {"ArrowRight"} => SoughtBy(i, p, n, SeekStep)

\* C14 (as claimed): every playback start of the run, by the load-completion
\* handler and by an Enter press, has looping enabled, and no clip of a
\* matched player is ever finished.
C14_EveryStartLoops ==
    /\ \A i \in 1..Len(trace) : \A k \in 1..Len(trace[i].out) :
          trace[i].out[k].op = "play" => trace[i].out[k].s = "repeat"
    /\ \A p \in matched : \A n \in DOMAIN player[p] :
          /\ player[p][n].repeat = "Forever"
          /\ ~IsFinished(player[p][n])

\* C16 (as claimed): the node an Enter press passes to the transition is the
\* node from_clips created for the clip handle at the new current index (the
\* entry of the returned node list at that index), and it is a clip node of
\* the player's graph.  Stated for frames with one matched player, where the
\* index moves once.
C16_EnterPlaysNodeOfIndex ==
    \A i \in PressFrames("Enter") :
        (Cardinality(trace[i].matched) = 1 /\ ~trace[i].crashed) =>
            LET plays == EventsOf(i, "play")
                indices == FromClips(animations.handles).indices
            IN  \A k \in 1..Len(plays) :
                    LET graph == animation_graphs[graph_handle[plays[k].p]]
                    IN  /\ plays[k].a = indices[trace[i].cur + 1]
                        /\ plays[k].a \in DOMAIN graph.nodes
                        /\ graph.nodes[plays[k].a].type = "Clip"
                        /\ graph.nodes[plays[k].a].clip
                             = animations.handles[trace[i].cur + 1]

\* The entries of the run made by the load-completion handler.
ReadyEntries == { i \in 1..Len(trace) : trace[i].kind = "ready" }

C17_PlayingSetNeverEmpty ==
    /\ ~crashed
    /\ \A p \in matched : DOMAIN player[p] # {}
    /\ \A i \in 1..Len(trace) :
          /\ ~trace[i].crashed
          /\ \A p \in trace[i].matched :
                /\ DOMAIN trace[i].handled[p] # {}
                /\ trace[i].kind = "frame" => DOMAIN trace[i].before[p] # {}

\* An ArrowUp press has read the first playing clip of a player after the
\* fade-out of an earlier Enter transition ended and stopped the old clip.
C17_Witness ==
    \E j \in PressFrames("ArrowUp") : \E p \in trace[j].matched :
        /\ Len(EventsOf(j, "println_speed")) >= 1
        /\ Cardinality(DOMAIN trace[j].before[p]) = 1
        /\ \E i \in PressFrames("Enter") :
              /\ i < j
              /\ p \in trace[i].matched
              /\ Cardinality(DOMAIN trace[i].handled[p]) = 2

\* GizmosConfig.y when entry i started.
YBefore(i) == IF i = 1 THEN FALSE ELSE trace[i - 1].y

\* The frames of the run in which the controller's query matched no entity.
UnmatchedFrames ==
    { i \in 1..Len(trace) : trace[i].kind = "frame" /\ trace[i].matched = {} }

\* C18: a frame in which no entity holds both AnimationPlayer and
\* AnimationTransitions leaves the current clip index, the 'use configured
\* speed' toggle and GizmosConfig.vel unchanged whatever key has a press
\* edge, calls nothing and logs nothing; GizmosConfig.y changes exactly when
\* Backspace has a press edge.  Every frame before load completion is one.
C18_UnmatchedFrameOnlyBackspace ==
    /\ \A i \in UnmatchedFrames :
          /\ trace[i].cur = CurBefore(i)
          /\ trace[i].use = UseBefore(i)
          /\ trace[i].vel = VelBefore(i)
          /\ trace[i].out = << >>
          /\ ~trace[i].crashed
          /\ (trace[i].y # YBefore(i)) <=> ("Backspace" \in trace[i].keys)
    /\ \A i \in 1..Len(trace) :
          (trace[i].kind = "frame" /\ ~LoadedBefore(i)) => i \in UnmatchedFrames
    /\ matched = {} =>
          /\ current_animation = 0
          /\ use_params = FALSE
          /\ gizmos_config.vel = 0

\* Before load completion, frames with an Enter, an ArrowUp and a Backspace
\* press edge have run, the last one changing GizmosConfig.y.
C18_Witness ==
    /\ ReadyEntries = {}
    /\ \E i \in UnmatchedFrames : trace[i].keys = {"Enter"}
    /\ \E i \in UnmatchedFrames : trace[i].keys = {"ArrowUp"}
    /\ \E i \in UnmatchedFrames :
          trace[i].keys = {"Backspace"} /\ trace[i].y # YBefore(i)

====
